---- MODULE Spec2Model ----
(***************************************************************************)
(* Normino (src/normino.py): the concurrent file-checking engine           *)
(* (check_file, parse_output_line, run_norminette) and the gated push      *)
(* workflow (push_normino, git_commit_push).                               *)
(*                                                                         *)
(* Text is modelled as a sequence of atoms.  An atom is one character      *)
(* ("/", "(", ",", " ", a digit) or one word of the checker's protocol     *)
(* that the code never looks inside ("Error", "OK", "line", "RULE").  The  *)
(* markers the code searches for are sequences of atoms: "Error:" is       *)
(* <<"Error", ":">>, ": OK!" is <<":", " ", "OK", "!">>.                   *)
(***************************************************************************)
EXTENDS Naturals, Sequences, FiniteSets, TLC

(***************************************************************************)
(* Bounds of the model.                                                    *)
(***************************************************************************)
\* longest file list handed to run_norminette in the general specification
MaxFiles == 2
\* most roots given on the command line, and most exclusions
MaxRoots == 2
MaxExcludes == 1
\* longest checker output, in lines, in the single-file specification
MaxLines == 2
\* files queued beyond the pool size in the pool specification
ExtraFiles == 1

(***************************************************************************)
(* Python's str operations on atom sequences.                              *)
(***************************************************************************)
IsSpace(a) == a \in {" ", "\t"}

\* s[i:] of Python, 1-based: the suffix starting at position i
Drop(s, i) == SubSeq(s, i, Len(s))

\* `m in s` for a non-empty marker m: m occurs contiguously in s
Contains(s, m) ==
    \E i \in 1..(Len(s) + 1 - Len(m)) : SubSeq(s, i, i + Len(m) - 1) = m

\* s.startswith(m)
StartsWith(s, m) == Len(s) >= Len(m) /\ SubSeq(s, 1, Len(m)) = m

\* s.split(sep) for a one-atom separator: always at least one piece
RECURSIVE SplitOn(_, _)
SplitOn(s, sep) ==
    IF \A i \in 1..Len(s) : s[i] # sep
    THEN <<s>>
    ELSE LET i == CHOOSE k \in 1..Len(s) :
                      s[k] = sep /\ \A j \in 1..(k - 1) : s[j] # sep
         IN  <<SubSeq(s, 1, i - 1)>> \o SplitOn(Drop(s, i + 1), sep)

\* s.split(): the maximal runs of non-whitespace atoms
RECURSIVE SplitWords(_)
SplitWords(s) ==
    IF s = <<>> THEN <<>>
    ELSE IF IsSpace(s[1]) THEN SplitWords(Tail(s))
    ELSE LET n == IF \A i \in 1..Len(s) : ~IsSpace(s[i])
                  THEN Len(s)
                  ELSE (CHOOSE k \in 1..Len(s) :
                            IsSpace(s[k]) /\ \A j \in 1..(k - 1) : ~IsSpace(s[j])) - 1
         IN  <<SubSeq(s, 1, n)>> \o SplitWords(Drop(s, n + 1))

\* " ".join(words)
RECURSIVE JoinSpace(_)
JoinSpace(words) ==
    IF words = <<>> THEN <<>>
    ELSE IF Len(words) = 1 THEN words[1]
    ELSE words[1] \o <<" ">> \o JoinSpace(Tail(words))

\* s.replace(m, ""): every non-overlapping occurrence of m removed, left to right
RECURSIVE Remove(_, _)
Remove(s, m) ==
    IF s = <<>> THEN <<>>
    ELSE IF StartsWith(s, m) THEN Remove(Drop(s, Len(m) + 1), m)
    ELSE <<s[1]>> \o Remove(Tail(s), m)

\* s.strip()
RECURSIVE Strip(_)
Strip(s) ==
    IF s = <<>> THEN <<>>
    ELSE IF IsSpace(s[1]) THEN Strip(Tail(s))
    ELSE IF IsSpace(s[Len(s)]) THEN Strip(SubSeq(s, 1, Len(s) - 1))
    ELSE s

\* s.lower(), on the letters an answer to a prompt is made of
Lower(s) ==
    [i \in 1..Len(s) |-> IF s[i] = "Y" THEN "y" ELSE IF s[i] = "N" THEN "n" ELSE s[i]]

(***************************************************************************)
(* The markers of the checker's protocol.                                  *)
(***************************************************************************)
MarkNotice == <<"Notice", ":">>
MarkOk == <<":", " ", "OK", "!">>
MarkErrorColon == <<"Error", ":">>
MarkErrorBang == <<":", " ", "Error", "!">>
MarkEOF == <<"Unexpected", " ", "EOF">>

(***************************************************************************)
(* Files and the checker's output.                                         *)
(***************************************************************************)
\* "/a/x.c", "/a/y.c" (same directory) and "/b/z.c"
PathAX == <<"/", "a", "/", "x", ".", "c">>
PathAY == <<"/", "a", "/", "y", ".", "c">>
PathBZ == <<"/", "b", "/", "z", ".", "c">>
Paths == {PathAX, PathAY, PathBZ}

\* The kinds of line the checker is made to print, and the text of each for a
\* file.  "err" and "err2" are well-formed diagnostics in the checker's layout
\* (padding spaces, a colon and a tab before the description); "noparen",
\* "oneval", "threeval" and "noclose" are malformed "Error:" lines.
LineKinds ==
    {"ok", "errhdr", "err", "err2", "notice", "noparen", "oneval", "threeval",
     "noclose", "eof", "junk"}

LineText(file, kind) ==
    CASE kind = "ok" -> file \o MarkOk
      [] kind = "errhdr" -> file \o MarkErrorBang
      [] kind = "err" ->
            <<"Error", ":", " ", "RULE", " ", " ", "(", "line", ":", " ", " ", "1",
              ",", " ", "col", ":", " ", " ", "2", ")", ":", "\t", "text">>
      [] kind = "err2" ->
            <<"Error", ":", " ", "RULE2", "(", "line", ":", " ", "2",
              ",", " ", "col", ":", " ", "1", ")", " ", "more", " ", "text">>
      [] kind = "notice" ->
            <<"Notice", ":", " ", "GLOBAL", " ", "(", "line", ":", " ", "1",
              ",", " ", "col", ":", " ", "1", ")", ":", "\t", "text">>
      [] kind = "noparen" -> <<"Error", ":", " ", "RULE", " ", "text">>
      [] kind = "oneval" ->
            <<"Error", ":", " ", "RULE", " ", "(", "line", ":", " ", "1", ")", " ", "text">>
      [] kind = "threeval" ->
            <<"Error", ":", " ", "RULE", " ", "(", "line", ":", " ", "1", ",", " ",
              "col", ":", " ", "2", ",", " ", "3", ")", " ", "text">>
      [] kind = "noclose" ->
            <<"Error", ":", " ", "RULE", " ", "(", "line", ":", " ", "1", ",", " ",
              "col", ":", " ", "2">>
      [] kind = "eof" -> <<"Error", ":", " ", "Unexpected", " ", "EOF">>
      [] OTHER -> <<"text">>

\* The stdout of a checker process that printed the lines `kinds` about `file`
StdoutOf(file, kinds) == [i \in 1..Len(kinds) |-> LineText(file, kinds[i])]

\* `marker in result.stdout`: no marker holds a line break
InStdout(stdout, m) == \E i \in 1..Len(stdout) : Contains(stdout[i], m)

(***************************************************************************)
(* parse_output_line(line, detailed).  The value is a record: kind "none"  *)
(* (None), "line" (the line returned verbatim), "diag" (the formatted      *)
(* diagnostic, kept as the fields the f-string is built from) or "raise"   *)
(* (the exception the call raises).                                        *)
(***************************************************************************)
ParseResult(kind, line_number, col_number, error_name, detail_text, text) ==
    [kind |-> kind, line_number |-> line_number, col_number |-> col_number,
     error_name |-> error_name, detail_text |-> detail_text, text |-> text]

ParseNone == ParseResult("none", <<>>, <<>>, <<>>, <<>>, <<>>)
ParseRaise(exc) == ParseResult("raise", <<>>, <<>>, <<>>, <<>>, <<exc>>)

\* the "Error:" branch, lines 124-134
ParseErrorLine(line, detailed) ==
    LET parts == SplitWords(line)
        error_description == JoinSpace(Drop(parts, 2))
        byOpen == SplitOn(error_description, "(")
        byClose == SplitOn(error_description, ")")
    IN  IF Len(byOpen) < 2 THEN ParseRaise("IndexError")
        ELSE
        LET details == SplitOn(byOpen[2], ")")[1]
            values == SplitOn(Remove(Remove(details, <<"line", ":", " ">>),
                                     <<"col", ":", " ">>), ",")
        IN  IF Len(values) # 2 THEN ParseRaise("ValueError")
            ELSE IF detailed /\ Len(byClose) < 2 THEN ParseRaise("IndexError")
            ELSE ParseResult("diag", values[1], values[2], Strip(byOpen[1]),
                             IF detailed THEN Strip(byClose[2]) ELSE <<>>, <<>>)

parse_output_line(line, detailed) ==
    IF Contains(line, MarkEOF) THEN ParseResult("line", <<>>, <<>>, <<>>, <<>>, line)
    ELSE IF Contains(line, MarkErrorColon) THEN ParseErrorLine(line, detailed)
    ELSE IF Contains(line, MarkErrorBang) THEN ParseNone
    ELSE ParseNone

\* the truth value the list comprehension of check_file filters on: None is
\* false, and every string the parser returns is non-empty
Truthy(p) == p.kind \in {"line", "diag"}

(***************************************************************************)
(* check_file(file, detailed).  `proc` is what subprocess.run meets: the   *)
(* process exits within the timeout with some stdout ("exit"), exceeds the *)
(* timeout ("timeout"), or cannot be started ("oserror").  subprocess.run  *)
(* is called without check=True, so it never raises CalledProcessError.    *)
(* An outcome is the returned tuple (file, status, third): `third` tells   *)
(* whether the third field is None, a list (errors) or a string (msg).     *)
(* `raised` is set when an exception leaves check_file instead.            *)
(***************************************************************************)
Outcome(file, status, third, errors, msg) ==
    [file |-> file, status |-> status, third |-> third, errors |-> errors,
     msg |-> msg, raised |-> FALSE]

\* [parse_output_line(l, detailed) for l in lines if parse_output_line(l, detailed)]
ParsedLines(stdout, detailed) ==
    SelectSeq([i \in 1..Len(stdout) |-> parse_output_line(stdout[i], detailed)], Truthy)

\* the exception the list comprehension raises, if any: the first raising line's
FirstRaise(stdout, detailed) ==
    LET raising == {i \in 1..Len(stdout) :
                        parse_output_line(stdout[i], detailed).kind = "raise"}
    IN  IF raising = {} THEN <<>>
        ELSE parse_output_line(
                 stdout[CHOOSE i \in raising : \A j \in raising : i <= j],
                 detailed).text

\* str(e) of the exceptions the model raises
ExcText(exc) ==
    CASE exc = "IndexError" -> <<"list index out of range">>
      [] exc = "ValueError" -> <<"not enough values to unpack">>
      [] OTHER -> <<"[Errno 2] No such file or directory: 'norminette'">>

\* a try body that parses the output before it looks for the success marker,
\* so that ok and warning outcomes carry what the parser found
CheckFileTryParsesFirst(file, detailed, proc) ==
    IF proc.kind = "timeout" THEN [ret |-> FALSE, exc |-> "TimeoutExpired"]
    ELSE IF proc.kind = "oserror" THEN [ret |-> FALSE, exc |-> "FileNotFoundError"]
    ELSE IF FirstRaise(proc.stdout, detailed) # <<>>
    THEN [ret |-> FALSE, exc |-> FirstRaise(proc.stdout, detailed)[1]]
    ELSE IF InStdout(proc.stdout, MarkNotice) /\ InStdout(proc.stdout, MarkOk)
    THEN [ret |-> TRUE,
          val |-> Outcome(file, "warning", "list", ParsedLines(proc.stdout, detailed), <<>>)]
    ELSE IF InStdout(proc.stdout, MarkOk)
    THEN [ret |-> TRUE,
          val |-> Outcome(file, "ok", "list", ParsedLines(proc.stdout, detailed), <<>>)]
    ELSE [ret |-> TRUE,
          val |-> Outcome(file, "error", "list", ParsedLines(proc.stdout, detailed), <<>>)]

\* the try body, lines 99-110: the returned tuple, or the exception raised
CheckFileTry(file, detailed, proc) ==
    IF proc.kind = "timeout" THEN [ret |-> FALSE, exc |-> "TimeoutExpired"]
    ELSE IF proc.kind = "oserror" THEN [ret |-> FALSE, exc |-> "FileNotFoundError"]
    ELSE IF InStdout(proc.stdout, MarkNotice) /\ InStdout(proc.stdout, MarkOk)
    THEN [ret |-> TRUE, val |-> Outcome(file, "warning", "None", <<>>, <<>>)]
    ELSE IF InStdout(proc.stdout, MarkOk)
    THEN [ret |-> TRUE, val |-> Outcome(file, "ok", "None", <<>>, <<>>)]
    ELSE IF FirstRaise(proc.stdout, detailed) # <<>>
    THEN [ret |-> FALSE, exc |-> FirstRaise(proc.stdout, detailed)[1]]
    ELSE [ret |-> TRUE,
          val |-> Outcome(file, "error", "list", ParsedLines(proc.stdout, detailed), <<>>)]

\* check_file without its last except clause: an exception that is neither
\* CalledProcessError nor TimeoutExpired leaves the function
check_file_uncaught(file, detailed, proc) ==
    LET body == CheckFileTry(file, detailed, proc)
    IN  IF body.ret THEN body.val
        ELSE IF body.exc = "CalledProcessError"
        THEN Outcome(file, "fail", "str", <<>>, <<body.exc>>)
        ELSE IF body.exc = "TimeoutExpired"
        THEN Outcome(file, "timeout", "str", <<>>,
                     <<"Checking timed out for", " ">> \o file)
        ELSE [Outcome(file, "none", "None", <<>>, <<>>) EXCEPT !.raised = TRUE]

\* the except clauses, lines 111-116, in their order
check_file(file, detailed, proc) ==
    LET body == CheckFileTry(file, detailed, proc)
    IN  IF body.ret THEN body.val
        ELSE IF body.exc = "CalledProcessError"
        THEN Outcome(file, "fail", "str", <<>>, <<body.exc>>)
        ELSE IF body.exc = "TimeoutExpired"
        THEN Outcome(file, "timeout", "str", <<>>,
                     <<"Checking timed out for", " ">> \o file)
        ELSE Outcome(file, "crash", "str", <<>>,
                     <<"An error occurred:", " ">> \o ExcText(body.exc))

(***************************************************************************)
(* Paths: comparison, sorting, os.path.relpath and os.path.dirname.        *)
(***************************************************************************)
\* the characters paths are made of, in the order of their code points
Alphabet == <<".", "/", "a", "b", "c", "x", "y", "z">>
Ord(ch) == CHOOSE i \in 1..Len(Alphabet) : Alphabet[i] = ch

\* p < q on Python strings: at the first difference, or p a proper prefix of q
StrLess(p, q) ==
    \/ Len(p) < Len(q) /\ SubSeq(q, 1, Len(p)) = p
    \/ \E i \in 1..Len(p) :
          /\ i <= Len(q)
          /\ SubSeq(p, 1, i - 1) = SubSeq(q, 1, i - 1)
          /\ Ord(p[i]) < Ord(q[i])

\* list.sort(): stable, ascending on the keys.  SortedOrder(keys, k) is the order
\* of the first k positions.  errors_by_file.sort() compares (file, errors)
\* tuples; two entries of one file carry the same errors, so the file decides.
InsertIdx(order, i, keys) ==
    LET n == Cardinality({j \in 1..Len(order) : ~StrLess(keys[i], keys[order[j]])})
    IN  SubSeq(order, 1, n) \o <<i>> \o SubSeq(order, n + 1, Len(order))

RECURSIVE SortedOrder(_, _)
SortedOrder(keys, k) ==
    IF k = 0 THEN <<>> ELSE InsertIdx(SortedOrder(keys, k - 1), k, keys)

\* a sort that leaves the list as it is
SortByKeyNone(items, keys) == items

SortByKey(items, keys) ==
    [j \in 1..Len(items) |-> items[SortedOrder(keys, Len(keys))[j]]]

\* files_ok.sort()
SortPaths(paths) == SortByKey(paths, paths)

\* sort of a list of (file, x) tuples by the file
SortByFile(entries) == SortByKey(entries, [i \in 1..Len(entries) |-> entries[i].file])

\* the working directory of the process: "/a"
Cwd == <<"/", "a">>

\* "/".join(components)
RECURSIVE JoinSlash(_)
JoinSlash(comps) ==
    IF comps = <<>> THEN <<>>
    ELSE IF Len(comps) = 1 THEN comps[1]
    ELSE comps[1] \o <<"/">> \o JoinSlash(Tail(comps))

\* os.path.relpath(path) for an absolute path: the components after the common
\* prefix with the working directory, behind one ".." per component left of it
RelPath(path) ==
    LET pc == Tail(SplitOn(path, "/"))
        cc == Tail(SplitOn(Cwd, "/"))
        common == Cardinality({k \in 1..Len(cc) :
                      k <= Len(pc) /\ SubSeq(pc, 1, k) = SubSeq(cc, 1, k)})
        ups == [k \in 1..(Len(cc) - common) |-> <<".", ".">>]
        rel == ups \o Drop(pc, common + 1)
    IN  IF rel = <<>> THEN <<".">> ELSE JoinSlash(rel)

\* os.path.dirname(os.path.abspath(file)) of an absolute, normalised path
DirName(path) ==
    LET comps == SplitOn(path, "/")
        head == JoinSlash(SubSeq(comps, 1, Len(comps) - 1))
    IN  IF head = <<>> THEN <<"/">> ELSE head

(***************************************************************************)
(* The state of one run of the program.                                    *)
(***************************************************************************)
VARIABLES
    entry,          \* "check": main() runs the checker; "push": main() runs push_normino;
                    \* "list": main() lists the files found
    launcher,       \* how the program was started: "script" (python normino.py, the
                    \* __main__ guard runs main) or "console" (the installed
                    \* console script calls normino:main)
    pc,             \* where the main process is
    files,          \* the list find_c_and_h_files returns
    procOf,         \* what the checker process does for each path of the list
    detailed, error_only, summary_only, print_output,   \* run_norminette's arguments
    submitted,      \* how many entries executor.submit has been called for
    task,           \* per entry: "new", "queued", "running", "done", "collected"
    running,        \* the entries whose check_file call a pool worker is running
    result,         \* per entry: what its future holds once done
    invoked,        \* per entry: how many times check_file was started for it
    collected,      \* per entry: how many times the loop took its outcome
    yielded,        \* the files in the order as_completed yielded their futures
    files_ok, warning_files, errors_by_file, files_failed,  \* the four buckets
    printed,        \* what the run printed, in order
    retval,         \* what run_norminette returned
    lint_input, unwanted_input,     \* the last answer to each prompt, as compared
    unwanted_files, \* the unwanted files found, after the Makefile filter
    gitlog,         \* the git commands run, in order
    exit_code,      \* the exit code of the process, or "none" while it runs
    paths, excludes,    \* find_c_and_h_files' arguments
    exclude_set,    \* its set of absolute exclusions
    included_files, \* the list it builds
    path_idx        \* how many elements of paths its loop has been through

vars ==
    <<entry, launcher, pc, files, procOf, detailed, error_only, summary_only, print_output,
      submitted, task, running, result, invoked, collected, yielded,
      files_ok, warning_files, errors_by_file, files_failed, printed, retval,
      lint_input, unwanted_input, unwanted_files, gitlog, exit_code,
      paths, excludes, exclude_set, included_files, path_idx>>

findVars == <<paths, excludes, exclude_set, included_files, path_idx>>
poolVars == <<submitted, task, running, result, invoked, collected, yielded>>
bucketVars == <<files_ok, warning_files, errors_by_file, files_failed>>
inputVars ==
    <<entry, launcher, files, procOf, detailed, error_only, summary_only, print_output,
      findVars>>
pushVars == <<lint_input, unwanted_input, unwanted_files, gitlog>>

\* ProcessPoolExecutor(max_workers=7)
MaxWorkers == 7

N == Len(files)
Entries == 1..N

NoOutcome == Outcome(<<>>, "none", "None", <<>>, <<>>)
NoReturn == [kind |-> "none", errors |-> 0, failed |-> 0, stats |-> <<>>]

\* what subprocess.run meets for entry i
ProcOfEntry(i) ==
    [kind |-> procOf[files[i]].kind,
     stdout |-> StdoutOf(files[i], procOf[files[i]].lines),
     returncode |-> procOf[files[i]].returncode,
     stderr |-> procOf[files[i]].stderr]

(***************************************************************************)
(* Initial states: the inputs of a run.                                    *)
(***************************************************************************)
Range(s) == {s[i] : i \in 1..Len(s)}
SeqsUpTo(S, n) == UNION {[1..k -> S] : k \in 0..n}

\* a process that exits within the timeout: what it printed, its exit code and
\* its standard error (result.returncode and result.stderr of line 99)
ExitProcWith(kinds, returncode, stderr) ==
    [kind |-> "exit", lines |-> kinds, returncode |-> returncode, stderr |-> stderr]
ExitProc(kinds) == ExitProcWith(kinds, 0, <<>>)
\* no result object exists for these two: the last two fields are never read
TimeoutProc == [kind |-> "timeout", lines |-> <<>>, returncode |-> 0, stderr |-> <<>>]
OSErrorProc == [kind |-> "oserror", lines |-> <<>>, returncode |-> 0, stderr |-> <<>>]

\* how a checker process may end: exit code 0 with nothing on standard error,
\* or exit code 1 with a message there
ExitStatuses == {<<0, <<>>>>, <<1, <<"norminette: error">>>>}

\* one checker behaviour per outcome of check_file: ok, warning, error with
\* diagnostics, error without, timeout, crash
FewProcs ==
    {ExitProc(<<"ok">>), ExitProc(<<"notice", "ok">>), ExitProc(<<"errhdr", "err">>),
     ExitProc(<<"errhdr">>), TimeoutProc, OSErrorProc}

\* every checker output of up to MaxLines lines, and the two failures
AllProcs ==
    {ExitProcWith(kinds, st[1], st[2]) :
        kinds \in SeqsUpTo(LineKinds, MaxLines), st \in ExitStatuses}
        \cup {TimeoutProc, OSErrorProc}

\* main() calls run_norminette with print_output left True and the flags of the
\* command line; push_normino calls it with the arguments of lines 488-494.
\* error_only and summary_only are read by the report alone (lines 170-201):
\* for the check command the model draws them there, where they are first read.
InitArgs ==
    /\ entry \in {"check", "push"}
    /\ print_output = (entry = "check")
    /\ detailed \in (IF entry = "check" THEN BOOLEAN ELSE {FALSE})
    /\ error_only = (entry = "push")
    /\ summary_only = FALSE

\* the pool specification fixes detailed, which the pool does not read
InitArgsPool ==
    /\ entry \in {"check", "push"}
    /\ print_output = (entry = "check")
    /\ detailed = FALSE
    /\ error_only = (entry = "push")
    /\ summary_only = FALSE

InitLocals ==
    /\ submitted = 0
    /\ task = [i \in Entries |-> "new"]
    /\ running = {}
    /\ result = [i \in Entries |-> NoOutcome]
    /\ invoked = [i \in Entries |-> 0]
    /\ collected = [i \in Entries |-> 0]
    /\ yielded = <<>>
    /\ files_ok = <<>>
    /\ warning_files = <<>>
    /\ errors_by_file = <<>>
    /\ files_failed = <<>>
    /\ printed = <<>>
    /\ retval = NoReturn
    /\ lint_input = <<"none">>
    /\ unwanted_input = <<"none">>
    /\ unwanted_files = <<>>
    /\ gitlog = <<>>
    /\ exit_code = "none"
    /\ exclude_set = {}
    /\ included_files = <<>>
    /\ path_idx = 0

\* the program starts in main()
InitRest == pc = "main" /\ InitLocals

\* the specifications of a run start from the list of files found; the
\* launcher is read only when an interrupt arrives
NoFind == paths = <<>> /\ excludes = <<>> /\ launcher = "console"

\* any list of up to MaxFiles entries, the same path possibly more than once
Init ==
    /\ files \in SeqsUpTo(Paths, MaxFiles)
    /\ procOf \in [Range(files) -> FewProcs]
    /\ InitArgs
    /\ InitRest
    /\ NoFind

\* one file, any checker output
InitCheck ==
    /\ files \in {<<PathAX>>, <<PathBZ>>}
    /\ procOf \in [Range(files) -> AllProcs]
    /\ InitArgs
    /\ InitRest
    /\ NoFind

\* more entries than the pool has workers; the pool does not look at what a
\* call returns, so one path and three checker behaviours stand for all
InitPool ==
    /\ files = [i \in 1..(MaxWorkers + ExtraFiles) |-> PathAX]
    /\ procOf \in [Range(files) ->
                      {ExitProc(<<"ok">>), ExitProc(<<"errhdr", "err">>), TimeoutProc}]
    /\ InitArgsPool
    /\ InitRest
    /\ NoFind

(***************************************************************************)
(* main() and the start of push_normino.                                   *)
(***************************************************************************)
Item(section, items) == [section |-> section, items |-> items]

\* an exit that reports success whatever the code
ExitZero(code) == pc' = "exit" /\ exit_code' = "0"

\* sys.exit(code)
Exit(code) == pc' = "exit" /\ exit_code' = code

\* main(), lines 566-584: the push command needs a commit message, from the
\* command line or typed; the default command checks the files found
Main ==
    /\ pc = "main"
    /\ \/ /\ entry = "check"
          /\ pc' = "run"
          /\ UNCHANGED <<exit_code, printed>>
       \/ /\ entry = "push"
          /\ \E commit_message \in {<<>>, <<"msg">>} :
                IF commit_message = <<>>
                THEN /\ Exit("1")
                     /\ printed' = Append(printed, Item("NO_MESSAGE", <<>>))
                ELSE /\ pc' = "push_repo"
                     /\ UNCHANGED <<exit_code, printed>>
    /\ UNCHANGED <<inputVars, poolVars, bucketVars, retval, pushVars>>

\* push_normino, lines 480-482: is_git_repository()
PushRepo ==
    /\ pc = "push_repo"
    /\ \E is_git_repository \in BOOLEAN :
          IF is_git_repository
          THEN pc' = "push_root" /\ UNCHANGED <<exit_code, printed>>
          ELSE Exit("1") /\ printed' = Append(printed, Item("NOT_A_REPO", <<>>))
    /\ UNCHANGED <<inputVars, poolVars, bucketVars, retval, pushVars>>

\* push_normino, lines 483-487: get_git_root(), then chdir and the call of
\* run_norminette on the files found
PushRoot ==
    /\ pc = "push_root"
    /\ \E git_root_found \in BOOLEAN :
          IF git_root_found
          THEN pc' = "run" /\ UNCHANGED <<exit_code, printed>>
          ELSE Exit("1") /\ printed' = Append(printed, Item("NO_GIT_ROOT", <<>>))
    /\ UNCHANGED <<inputVars, poolVars, bucketVars, retval, pushVars>>

(***************************************************************************)
(* run_norminette: the pool, lines 147-167.                                *)
(***************************************************************************)
\* lines 148-152: the "Processing..." line, the empty buckets, the pool
RunStart ==
    /\ pc = "run"
    /\ pc' = "pool"
    /\ printed' = IF print_output THEN Append(printed, Item("PROCESSING", <<>>))
                  ELSE printed
    /\ UNCHANGED <<inputVars, poolVars, bucketVars, retval, pushVars, exit_code>>

\* line 154: executor.submit(check_file, file, detailed), one entry after the other
Submit ==
    /\ pc = "pool"
    /\ submitted < N
    /\ submitted' = submitted + 1
    /\ task' = [task EXCEPT ![submitted + 1] = "queued"]
    /\ UNCHANGED <<inputVars, pc, running, result, invoked, collected, yielded,
                   bucketVars,
                   printed, retval, pushVars, exit_code>>

\* a pool that hands out a call again while it is still running
NextQueuedOrRunning ==
    CHOOSE i \in Entries :
        task[i] \in {"queued", "running"}
            /\ \A j \in 1..(i - 1) : task[j] \notin {"queued", "running"}

\* the entry the pool hands out next: the call queue is first in, first out
NextQueued == CHOOSE i \in Entries : task[i] = "queued" /\ \A j \in 1..(i - 1) : task[j] # "queued"

\* a pool that starts a process for every queued call
WorkerIdleAlways == TRUE

\* max_workers=7: a worker is idle while fewer calls than workers are running
WorkerIdle == Cardinality(running) < MaxWorkers

\* an idle worker takes the next queued call and starts check_file, and with it
\* the checker process.  The workers are identical single-threaded processes,
\* each running one call at a time: `running` holds the calls they run.
StartTask ==
    /\ pc = "pool"
    /\ {i \in Entries : task[i] = "queued"} # {}
    /\ WorkerIdle
    /\ running' = running \cup {NextQueued}
    /\ task' = [task EXCEPT ![NextQueued] = "running"]
    /\ invoked' = [invoked EXCEPT ![NextQueued] = @ + 1]
    /\ UNCHANGED <<inputVars, pc, submitted, result, collected, yielded, bucketVars,
                   printed, retval, pushVars, exit_code>>

\* a call of subprocess.run without a timeout: it returns only if the process
\* ends by itself
CallReturnsNoDeadline(proc) == proc.kind # "timeout"

\* line 99, timeout=5: the call ends when the process ends by itself or cannot
\* be started, and at the deadline, where the process is killed, otherwise
CallReturns(proc) == proc.kind \in {"exit", "oserror", "timeout"}

\* check_file returns for entry i: its worker is idle and its future is done
FinishTask(i) ==
    /\ i \in running
    /\ CallReturns(ProcOfEntry(i))
    /\ result' = [result EXCEPT ![i] = check_file(files[i], detailed, ProcOfEntry(i))]
    /\ task' = [task EXCEPT ![i] = "done"]
    /\ running' = running \ {i}
    /\ UNCHANGED <<inputVars, pc, submitted, invoked, collected, yielded, bucketVars,
                   printed, retval, pushVars, exit_code>>

\* an aggregation that has no branch for timeouts
BucketOfNoTimeout(o) ==
    IF o.status = "ok" THEN "files_ok"
    ELSE IF o.status = "warning" THEN "warning_files"
    ELSE IF o.status = "error" /\ o.errors # <<>> THEN "errors_by_file"
    ELSE IF o.status \in {"fail", "crash"} THEN "files_failed"
    ELSE "none"

\* lines 158-167: the bucket the outcome goes to, if any
BucketOf(o) ==
    IF o.status = "ok" THEN "files_ok"
    ELSE IF o.status = "warning" THEN "warning_files"
    ELSE IF o.status = "error" /\ o.errors # <<>> THEN "errors_by_file"
    ELSE IF o.status \in {"fail", "timeout", "crash"} THEN "files_failed"
    ELSE "none"

\* lines 156-167: as_completed yields a done future not yet yielded, in any
\* order; future.result() raises what check_file raised
Collect(i) ==
    /\ pc = "pool"
    /\ submitted = N
    /\ task[i] = "done"
    /\ task' = [task EXCEPT ![i] = "collected"]
    /\ collected' = [collected EXCEPT ![i] = @ + 1]
    /\ yielded' = Append(yielded, files[i])
    /\ LET o == result[i] IN
       IF o.raised
       THEN /\ pc' = "uncaught"
            /\ exit_code' = "1"
            /\ UNCHANGED bucketVars
       ELSE /\ UNCHANGED <<pc, exit_code>>
            /\ files_ok' = IF BucketOf(o) = "files_ok"
                           THEN Append(files_ok, o.file) ELSE files_ok
            /\ warning_files' =
                  IF BucketOf(o) = "warning_files"
                  THEN Append(warning_files,
                              [file |-> o.file,
                               warnings |-> <<"Make sure your global is const or static!">>])
                  ELSE warning_files
            /\ errors_by_file' =
                  IF BucketOf(o) = "errors_by_file"
                  THEN Append(errors_by_file, [file |-> o.file, errors |-> o.errors])
                  ELSE errors_by_file
            /\ files_failed' =
                  IF BucketOf(o) = "files_failed"
                  THEN Append(files_failed, [file |-> o.file, msg |-> o.msg])
                  ELSE files_failed
    /\ UNCHANGED <<inputVars, submitted, running, result, invoked, printed, retval,
                   pushVars>>

\* a loop that stops at the first future yielded
AnyYielded == \E i \in Entries : task[i] = "collected"

\* line 156: as_completed is exhausted when every future has been yielded
AllYielded == \A i \in Entries : task[i] = "collected"

\* the end of the with block, line 167: every future was yielded, the pool
\* shuts down
Shutdown ==
    /\ pc = "pool"
    /\ submitted = N
    /\ AllYielded
    /\ pc' = IF print_output THEN "render" ELSE "stats"
    /\ UNCHANGED <<inputVars, poolVars, bucketVars, printed, retval, pushVars,
                   exit_code>>

(***************************************************************************)
(* run_norminette: the report, lines 168-213, and the directory summary,   *)
(* lines 214-220.                                                          *)
(***************************************************************************)
\* a report whose PASS section ignores error_only
ShowPassAlways(eo, so) == ~so /\ files_ok # <<>>

\* lines 170-201: which sections the flags and the buckets let through
ShowPass(eo, so) == ~so /\ files_ok # <<>> /\ ~eo
ShowWarn(so) == ~so /\ warning_files # <<>>
ShowFail(so) == ~so /\ errors_by_file # <<>>
ShowFailed(so) == ~so /\ files_failed # <<>>
ShowSummary(so) == so \/ errors_by_file # <<>> \/ files_failed # <<>>

\* lines 172-182: the PASS section lists the sorted files, relative
PassSection ==
    <<Item("PASS", [k \in 1..Len(files_ok) |-> RelPath(SortPaths(files_ok)[k])])>>
        \o (IF errors_by_file # <<>> THEN <<Item("BLANK", <<>>)>> ELSE <<>>)

\* print_warnings, lines 139-145: the files in the order of the list
WarnSection ==
    <<Item("WARN", [k \in 1..Len(warning_files) |->
                       [file |-> RelPath(warning_files[k].file),
                        warnings |-> warning_files[k].warnings]])>>

\* lines 186-190: the sorted files, each through display_errors (lines 44-68:
\* nothing for an empty list, else the relative path and the diagnostics)
FailSection ==
    <<Item("FAIL", SelectSeq([k \in 1..Len(errors_by_file) |->
                                 [file |-> RelPath(SortByFile(errors_by_file)[k].file),
                                  errors |-> SortByFile(errors_by_file)[k].errors]],
                             LAMBDA e : e.errors # <<>>))>>

\* lines 192-200: the sorted files, each as "file: msg"
FailedSection == <<Item("FAILED", SortByFile(files_failed))>>

\* lines 202-208: the counts; the third is printed only when it is not 0
SummarySection ==
    <<Item("SUMMARY",
           <<Len(files_ok),
             Cardinality({errors_by_file[k].file : k \in 1..Len(errors_by_file)})>>
               \o (IF Len(files_failed) # 0 THEN <<Len(files_failed)>> ELSE <<>>))>>

\* lines 168-213, print_output true: the sections, the sorts in place that
\* printing a section does, and the returned pair
Render ==
    /\ pc = "render"
    /\ \E eo \in BOOLEAN, so \in BOOLEAN :
          /\ error_only' = eo
          /\ summary_only' = so
          /\ printed' = printed \o <<Item("CLEAR", <<>>)>>
                           \o (IF ShowPass(eo, so) THEN PassSection ELSE <<>>)
                           \o (IF ShowWarn(so) THEN WarnSection ELSE <<>>)
                           \o (IF ShowFail(so) THEN FailSection ELSE <<>>)
                           \o (IF ShowFailed(so) THEN FailedSection ELSE <<>>)
                           \o (IF ShowSummary(so) THEN SummarySection ELSE <<>>)
                           \o <<Item("TIME", <<>>)>>
          /\ files_ok' = IF ShowPass(eo, so) THEN SortPaths(files_ok) ELSE files_ok
          /\ errors_by_file' =
                IF ShowFail(so) THEN SortByFile(errors_by_file) ELSE errors_by_file
          /\ files_failed' =
                IF ShowFailed(so) THEN SortByFile(files_failed) ELSE files_failed
    /\ retval' = [kind |-> "counts", errors |-> Len(errors_by_file),
                  failed |-> Len(files_failed), stats |-> <<>>]
    /\ pc' = "done"
    /\ exit_code' = "0"
    /\ UNCHANGED <<entry, launcher, files, procOf, detailed, print_output, findVars,
                   poolVars,
                   warning_files, pushVars>>

\* lines 215-220: one count per directory of errors_by_file + files_failed
DirStats(combined) ==
    [d \in {DirName(combined[k].file) : k \in 1..Len(combined)} |->
        Cardinality({k \in 1..Len(combined) : DirName(combined[k].file) = d})]

\* print_output false: nothing is printed and the summary is returned
ReturnStats ==
    /\ pc = "stats"
    /\ retval' = [kind |-> "stats", errors |-> 0, failed |-> 0,
                  stats |-> DirStats(errors_by_file \o files_failed)]
    /\ pc' = "lint"
    /\ UNCHANGED <<inputVars, poolVars, bucketVars, printed, pushVars, exit_code>>

(***************************************************************************)
(* push_normino, lines 495-531, and git_commit_push, lines 427-470.        *)
(***************************************************************************)
\* sum(stats.values())
RECURSIVE SumValues(_)
SumValues(f) ==
    IF DOMAIN f = {} THEN 0
    ELSE LET d == CHOOSE x \in DOMAIN f : TRUE
         IN  f[d] + SumValues([x \in DOMAIN f \ {d} |-> f[x]])

\* what the operator may type at a prompt
Answers ==
    {<<"y">>, <<" ", "Y", " ">>, <<"n">>, <<"N">>, <<>>, <<"n", "o">>}

\* input(...).strip().lower()
UserInput(raw) == Lower(Strip(raw))

\* lines 495-501: the summary decides whether the lint prompt is shown
LintSummary ==
    /\ pc = "lint"
    /\ IF SumValues(retval.stats) > 0
       THEN /\ pc' = "lint_prompt"
            /\ printed' = Append(printed, Item("NORM_ERRORS", retval.stats))
       ELSE /\ pc' = "unwanted"
            /\ UNCHANGED printed
    /\ UNCHANGED <<inputVars, poolVars, bucketVars, retval, pushVars, exit_code>>

\* a prompt that takes every answer but 'n' for a yes
ProceedsUnlessNo(user_input) == user_input # <<"n">>

\* lines 504 and 523: the answer that lets the workflow go on
Proceeds(user_input) == user_input = <<"y">>

\* lines 507 and 526: the answer that aborts it
Aborts(user_input) == user_input = <<"n">>

\* lines 502-511: one turn of the lint prompt's loop
LintPrompt ==
    /\ pc = "lint_prompt"
    /\ \E raw \in Answers :
          /\ lint_input' = UserInput(raw)
          /\ IF Proceeds(UserInput(raw))
             THEN /\ pc' = "unwanted"
                  /\ printed' = Append(printed, Item("PROCEED_LINT", <<>>))
                  /\ UNCHANGED exit_code
             ELSE IF Aborts(UserInput(raw))
             THEN /\ Exit("1")
                  /\ printed' = Append(printed, Item("ABORTED", <<>>))
             ELSE /\ UNCHANGED <<pc, exit_code, printed>>
    /\ UNCHANGED <<inputVars, poolVars, bucketVars, retval, unwanted_input,
                   unwanted_files, gitlog>>

\* what check_unwanted_files may return
UnwantedLists == {<<>>, <<"Makefile">>, <<"a.out">>, <<"Makefile", "a.out">>}

\* lines 515-520: the unwanted files, those ending in Makefile left out
UnwantedCheck ==
    /\ pc = "unwanted"
    /\ \E found \in UnwantedLists :
          LET kept == SelectSeq(found, LAMBDA f : f # "Makefile") IN
          /\ unwanted_files' = kept
          /\ IF kept # <<>>
             THEN /\ pc' = "unwanted_prompt"
                  /\ printed' = Append(printed, Item("UNWANTED", kept))
             ELSE /\ pc' = "git_status"
                  /\ UNCHANGED printed
    /\ UNCHANGED <<inputVars, poolVars, bucketVars, retval, lint_input,
                   unwanted_input, gitlog, exit_code>>

\* lines 521-530: one turn of the unwanted-files prompt's loop
UnwantedPrompt ==
    /\ pc = "unwanted_prompt"
    /\ \E raw \in Answers :
          /\ unwanted_input' = UserInput(raw)
          /\ IF Proceeds(UserInput(raw))
             THEN /\ pc' = "git_status"
                  /\ printed' = Append(printed, Item("PROCEED_UNWANTED", <<>>))
                  /\ UNCHANGED exit_code
             ELSE IF Aborts(UserInput(raw))
             THEN /\ Exit("1")
                  /\ printed' = Append(printed, Item("ABORTED", <<>>))
             ELSE /\ UNCHANGED <<pc, exit_code, printed>>
    /\ UNCHANGED <<inputVars, poolVars, bucketVars, retval, lint_input,
                   unwanted_files, gitlog>>

\* one git command of git_commit_push: it is run, and fails or not
GitStep(at, command, next) ==
    /\ pc = at
    /\ gitlog' = Append(gitlog, command)
    /\ \E ok \in BOOLEAN :
          IF ok THEN pc' = next /\ exit_code' = (IF next = "done" THEN "0" ELSE exit_code)
          ELSE Exit("1")
    /\ UNCHANGED <<inputVars, poolVars, bucketVars, printed, retval, lint_input,
                   unwanted_input, unwanted_files>>

\* lines 429-437: git status; a clean tree ends the call
GitStatus ==
    /\ pc = "git_status"
    /\ gitlog' = Append(gitlog, "status")
    /\ \E outcome \in {"failed", "clean", "dirty"} :
          CASE outcome = "failed" -> Exit("1")
            [] outcome = "clean" -> pc' = "done" /\ exit_code' = "0"
            [] OTHER -> pc' = "git_add" /\ UNCHANGED exit_code
    /\ UNCHANGED <<inputVars, poolVars, bucketVars, printed, retval, lint_input,
                   unwanted_input, unwanted_files>>

\* line 438, lines 440, 444-449 and 451-460
GitAdd == GitStep("git_add", "add", "git_commit")
GitCommit == GitStep("git_commit", "commit", "git_branch")
GitBranch == GitStep("git_branch", "rev-parse", "git_push")
GitPush == GitStep("git_push", "push", "done")

(***************************************************************************)
(* find_c_and_h_files, lines 71-94, on a file system with the working      *)
(* directory /a:  /a/x.c  /a/n.o  /a/d/y.h  /a/d/e/z.c                     *)
(***************************************************************************)
DirD == Cwd \o <<"/", "d">>
DirE == DirD \o <<"/", "e">>
FsDirs == {Cwd, DirD, DirE}
FsFiles ==
    {Cwd \o <<"/", "x", ".", "c">>, Cwd \o <<"/", "n", ".", "o">>,
     DirD \o <<"/", "y", ".", "h">>, DirE \o <<"/", "z", ".", "c">>}

\* the (dirs, files) os.walk lists for a directory, names in listing order
FsEntries(dir) ==
    CASE dir = Cwd -> [dirs |-> << <<"d">> >>, files |-> << <<"x", ".", "c">>, <<"n", ".", "o">> >>]
      [] dir = DirD -> [dirs |-> << <<"e">> >>, files |-> << <<"y", ".", "h">> >>]
      [] OTHER -> [dirs |-> <<>>, files |-> << <<"z", ".", "c">> >>]

\* os.path.isfile, os.path.isdir
IsFile(p) == p \in FsFiles
IsDir(p) == p \in FsDirs

\* os.path.abspath: an absolute path as it is, "." the working directory, any
\* other relative path joined to it
AbsPath(p) ==
    IF p # <<>> /\ p[1] = "/" THEN p
    ELSE IF p = <<".">> THEN Cwd
    ELSE Cwd \o <<"/">> \o p

\* os.path.join(root, name)
JoinPath(root, name) == root \o <<"/">> \o name

\* s.endswith(('.c', '.h'))
EndsWithCH(name) ==
    Len(name) >= 2 /\ SubSeq(name, Len(name) - 1, Len(name)) \in {<<".", "c">>, <<".", "h">>}

\* lines 85-93: os.walk top-down from root, the excluded directories pruned,
\* the files that are not excluded and end in .c or .h kept
RECURSIVE Walk(_, _)
RECURSIVE WalkDirs(_, _, _)
Walk(root, ex) ==
    LET e == FsEntries(root)
        kept == SelectSeq(e.dirs, LAMBDA d : AbsPath(JoinPath(root, d)) \notin ex)
        own == SelectSeq([k \in 1..Len(e.files) |-> AbsPath(JoinPath(root, e.files[k]))],
                         LAMBDA f : f \notin ex /\ EndsWithCH(f))
    IN  own \o WalkDirs(root, kept, ex)

WalkDirs(root, dirs, ex) ==
    IF dirs = <<>> THEN <<>>
    ELSE Walk(JoinPath(root, dirs[1]), ex) \o WalkDirs(root, Tail(dirs), ex)

\* what the command line may give as paths and as exclusions
RootChoices ==
    {<<".">>, <<"x", ".", "c">>, <<"d">>, <<"d", "/", "y", ".", "h">>,
     <<"d", "/", "e">>, DirD, <<"q", ".", "c">>}
ExcludeChoices == {<<".">>, <<"x", ".", "c">>, <<"d">>, <<"d", "/", "y", ".", "h">>}

\* the lines of downloaded.tests, if the file exists
DownloadedChoices == {<<>>, << <<"d", "/", "e">> >>}

\* the command `normino -l [paths] [-x excludes]`
InitFind ==
    /\ entry = "list"
    /\ print_output = TRUE
    /\ detailed = FALSE
    /\ error_only = FALSE
    /\ summary_only = FALSE
    /\ files = <<>>
    /\ procOf = [p \in {} |-> TimeoutProc]
    /\ InitRest
    /\ launcher = "console"
    /\ paths \in SeqsUpTo(RootChoices, MaxRoots)
    /\ excludes \in SeqsUpTo(ExcludeChoices, MaxExcludes)

\* main(), lines 577-579: no path given means "."
MainList ==
    /\ pc = "main"
    /\ entry = "list"
    /\ paths' = IF paths = <<>> THEN << <<".">> >> ELSE paths
    /\ pc' = "find"
    /\ UNCHANGED <<entry, launcher, files, procOf, detailed, error_only, summary_only,
                   print_output, excludes, exclude_set, included_files, path_idx,
                   poolVars, bucketVars, printed, retval, pushVars, exit_code>>

\* lines 72-78: the exclusions, with those of downloaded.tests, made absolute
FindStart ==
    /\ pc = "find"
    /\ \E downloaded_excludes \in DownloadedChoices :
          /\ excludes' = excludes \o downloaded_excludes
          /\ exclude_set' = {AbsPath(e) : e \in Range(excludes \o downloaded_excludes)}
    /\ included_files' = <<>>
    /\ path_idx' = 0
    /\ pc' = "find_loop"
    /\ UNCHANGED <<entry, launcher, files, procOf, detailed, error_only, summary_only,
                   print_output, paths, poolVars, bucketVars, printed, retval,
                   pushVars, exit_code>>

\* lines 79-93: one turn of the loop over paths
FindPath ==
    /\ pc = "find_loop"
    /\ path_idx < Len(paths)
    /\ path_idx' = path_idx + 1
    /\ LET abs_path == AbsPath(paths[path_idx + 1]) IN
       included_files' =
          IF IsFile(abs_path)
          THEN IF abs_path \notin exclude_set /\ EndsWithCH(abs_path)
               THEN Append(included_files, abs_path)
               ELSE included_files
          ELSE IF IsDir(abs_path)
          THEN included_files \o Walk(abs_path, exclude_set)
          ELSE included_files
    /\ UNCHANGED <<entry, launcher, files, procOf, detailed, error_only, summary_only,
                   print_output, paths, excludes, exclude_set, pc, poolVars,
                   bucketVars, printed, retval, pushVars, exit_code>>

\* line 94 and main(), lines 579-582: the list is returned and printed
FindReturn ==
    /\ pc = "find_loop"
    /\ path_idx = Len(paths)
    /\ printed' = Append(printed, Item("FILES", included_files))
    /\ pc' = "done"
    /\ exit_code' = "0"
    /\ UNCHANGED <<inputVars, poolVars, bucketVars, retval, pushVars>>

\* run_norminette called by main() for more entries than workers: the first is
\* a file of its own, which hangs, the others are one file that passes with a
\* notice
InitLive ==
    /\ files = [i \in 1..(MaxWorkers + ExtraFiles) |-> IF i = 1 THEN PathBZ ELSE PathAX]
    /\ procOf = [p \in Range(files) |->
                    IF p = PathBZ THEN TimeoutProc ELSE ExitProc(<<"notice", "ok">>)]
    /\ entry = "check"
    /\ print_output = TRUE
    /\ detailed = FALSE
    /\ error_only = FALSE
    /\ summary_only = FALSE
    /\ pc = "run"
    /\ InitLocals
    /\ NoFind

(***************************************************************************)
(* The operator's interrupt: the __main__ guard, lines 587-599, and the    *)
(* console script of setup.py, lines 18-22, which calls main() directly.   *)
(***************************************************************************)
InitInterrupt ==
    /\ files \in {<<PathAX>>, <<PathAX, PathBZ>>}
    /\ procOf \in [Range(files) ->
                      {ExitProc(<<"ok">>), ExitProc(<<"errhdr", "err">>), TimeoutProc}]
    /\ InitArgsPool
    /\ InitRest
    /\ paths = <<>>
    /\ excludes = <<>>
    /\ launcher \in {"script", "console"}

\* run_norminette is being executed
InRun == pc \in {"run", "pool", "render", "stats"}

\* KeyboardInterrupt is raised in the main process during run_norminette.  The
\* with block is left through the pool's shutdown, which waits for the calls
\* the workers are running.  Started as a script, the guard catches the
\* exception, prints the notice and signals its own process group: the signal
\* ends the process itself, unless os.killpg raised (line 597 swallows that)
\* and line 599 exits with 0.  Started through the console script, no guard is
\* around main(): the exception is uncaught and the interpreter ends on SIGINT.
KeyboardInterrupt ==
    /\ InRun
    /\ exit_code = "none"
    /\ pc' = "interrupted"
    /\ running' = {}
    /\ IF launcher = "script"
       THEN /\ printed' = Append(printed, Item("CANCELLED", <<>>))
            /\ \E killpg_raised \in BOOLEAN :
                  exit_code' = IF killpg_raised THEN "0" ELSE "SIGTERM"
       ELSE /\ printed' = printed
            /\ exit_code' = "SIGINT"
    /\ UNCHANGED <<inputVars, submitted, task, result, invoked, collected, yielded,
                   bucketVars, retval, pushVars>>

(***************************************************************************)
(* The specifications.                                                     *)
(***************************************************************************)
Next ==
    \/ Main
    \/ PushRepo
    \/ PushRoot
    \/ RunStart
    \/ Submit
    \/ StartTask
    \/ \E i \in Entries : FinishTask(i)
    \/ \E i \in Entries : Collect(i)
    \/ Shutdown
    \/ Render
    \/ ReturnStats
    \/ LintSummary
    \/ LintPrompt
    \/ UnwantedCheck
    \/ UnwantedPrompt
    \/ GitStatus
    \/ GitAdd
    \/ GitCommit
    \/ GitBranch
    \/ GitPush

\* any short file list, one checker behaviour per outcome
Spec == Init /\ [][Next]_vars

\* one file, any checker output
SpecCheck == InitCheck /\ [][Next]_vars

\* more files than workers
SpecPool == InitPool /\ [][Next]_vars

\* a run that the operator may interrupt
NextInterrupt ==
    \/ Next
    \/ KeyboardInterrupt

\* two files at most, either launcher, an interrupt at any point of the run
SpecInterrupt == InitInterrupt /\ [][NextInterrupt]_vars

\* run_norminette, from its call to its return
NextRun ==
    \/ RunStart
    \/ Submit
    \/ StartTask
    \/ \E i \in Entries : FinishTask(i)
    \/ \E i \in Entries : Collect(i)
    \/ Shutdown
    \/ Render

\* the main process keeps running its statements, the pool hands a queued call
\* to an idle worker, a worker's call returns (CallReturns), and as_completed
\* yields a future that is done
FairRun ==
    /\ WF_vars(RunStart)
    /\ WF_vars(Submit)
    /\ WF_vars(StartTask)
    /\ WF_vars(\E i \in Entries : FinishTask(i))
    /\ WF_vars(\E i \in Entries : Collect(i))
    /\ WF_vars(Shutdown)
    /\ WF_vars(Render)

\* more files than workers, one of them hanging, under fair scheduling
SpecLive == InitLive /\ [][NextRun]_vars /\ FairRun

\* the file discovery
NextFind ==
    \/ MainList
    \/ FindStart
    \/ FindPath
    \/ FindReturn

\* file discovery for any short list of roots and exclusions
SpecFind == InitFind /\ [][NextFind]_vars

(***************************************************************************)
(* What the claims are stated with.                                        *)
(***************************************************************************)
\* run_norminette has returned
RunReturned == retval.kind # "none"

\* the with block of run_norminette is over
PoolShutDown == pc \in {"render", "stats"} \/ RunReturned

\* the outcome of checking entry i on its own: check_file on its file and on
\* what the checker does for that file
AloneOutcome(i) == check_file(files[i], detailed, ProcOfEntry(i))

\* the entries whose outcome, as they are checked alone, belongs to a bucket
EntriesIn(bucket) == {i \in Entries : BucketOf(AloneOutcome(i)) = bucket}

Count(seq, x) == Cardinality({k \in 1..Len(seq) : seq[k] = x})
CountFile(seq, p) == Cardinality({k \in 1..Len(seq) : seq[k].file = p})

\* ascending by path, equal paths allowed
SortedPaths(seq) == \A k \in 1..(Len(seq) - 1) : ~StrLess(seq[k + 1], seq[k])
SortedByFile(seq) == \A k \in 1..(Len(seq) - 1) : ~StrLess(seq[k + 1].file, seq[k].file)

HasSection(name) == \E k \in 1..Len(printed) : printed[k].section = name
SectionItems(name) ==
    printed[CHOOSE k \in 1..Len(printed) : printed[k].section = name].items

\* the report of a check run has been printed
Reported == pc = "done" /\ entry = "check"

(***************************************************************************)
(* C1.  Whatever the list and the order in which the calls complete,       *)
(* check_file is started at most once per list entry and its outcome is    *)
(* taken at most once, never before the call was started; and once the     *)
(* pool is shut down both have happened exactly once for every entry,      *)
(* so as many outcomes were yielded as the list has entries.               *)
(***************************************************************************)
C1_OncePerEntry ==
    /\ \A i \in Entries :
          /\ invoked[i] <= 1
          /\ collected[i] <= invoked[i]
          /\ collected[i] = 1 <=> task[i] = "collected"
    /\ Len(yielded) = Cardinality({i \in Entries : collected[i] = 1})
    /\ PoolShutDown =>
          /\ \A i \in Entries : invoked[i] = 1 /\ collected[i] = 1
          /\ Len(yielded) = N

\* the pool is shut down after a run over more entries than it has workers
C1_Witness ==
    /\ PoolShutDown
    /\ N > MaxWorkers
    /\ \A i \in Entries : invoked[i] = 1 /\ collected[i] = 1

(***************************************************************************)
(* C2.  Once all outcomes are collected every checked file is in exactly   *)
(* one of the four buckets: the bucket sizes add up to the number of       *)
(* entries, and each path is in the buckets as often as in the list.       *)
(***************************************************************************)
C2_BucketsPartition ==
    PoolShutDown =>
        /\ Len(files_ok) + Len(warning_files) + Len(errors_by_file)
              + Len(files_failed) = N
        /\ \A p \in Paths :
              Count(files_ok, p) + CountFile(warning_files, p)
                  + CountFile(errors_by_file, p) + CountFile(files_failed, p)
                  = Count(files, p)

(***************************************************************************)
(* C3.  The counts and the PASS and FAIL listings of a printed report are  *)
(* functions of the file list and of the checker's output per file alone,  *)
(* whatever the order of completion: the counts are those of the entries   *)
(* as checked alone, and each listing is ascending by path and holds each  *)
(* path as often as the entries of its bucket do, each FAIL entry with the *)
(* diagnostics of its file.                                                *)
(***************************************************************************)
C3_ReportDeterministic ==
    Reported =>
        /\ retval.errors = Cardinality(EntriesIn("errors_by_file"))
        /\ retval.failed = Cardinality(EntriesIn("files_failed"))
        /\ HasSection("SUMMARY") =>
              SectionItems("SUMMARY") =
                  <<Cardinality(EntriesIn("files_ok")),
                    Cardinality({files[i] : i \in EntriesIn("errors_by_file")})>>
                      \o (IF EntriesIn("files_failed") # {}
                          THEN <<Cardinality(EntriesIn("files_failed"))>> ELSE <<>>)
        /\ HasSection("PASS") =>
              /\ SortedPaths(files_ok)
              /\ \A p \in Paths :
                    Count(files_ok, p)
                        = Cardinality({i \in EntriesIn("files_ok") : files[i] = p})
              /\ SectionItems("PASS") =
                    [k \in 1..Len(files_ok) |-> RelPath(files_ok[k])]
        /\ HasSection("FAIL") =>
              /\ SortedByFile(errors_by_file)
              /\ \A p \in Paths :
                    CountFile(errors_by_file, p)
                        = Cardinality({i \in EntriesIn("errors_by_file") : files[i] = p})
              /\ \A k \in 1..Len(errors_by_file) :
                    \A i \in Entries :
                        files[i] = errors_by_file[k].file =>
                            errors_by_file[k].errors = AloneOutcome(i).errors
              /\ SectionItems("FAIL") =
                    [k \in 1..Len(errors_by_file) |->
                        [file |-> RelPath(errors_by_file[k].file),
                         errors |-> errors_by_file[k].errors]]

\* a report with a PASS section of two files that completed in the opposite
\* order of their paths
C3_Witness ==
    /\ Reported
    /\ HasSection("PASS")
    /\ Len(files_ok) = 2
    /\ Len(yielded) = 2
    /\ StrLess(yielded[2], yielded[1])

(***************************************************************************)
(* C4.  At every moment at most MaxWorkers = 7 check_file calls, and so    *)
(* checker processes, are running, however many entries are queued; the    *)
(* running calls are exactly the entries marked running, one worker and    *)
(* one start of check_file each.                                           *)
(***************************************************************************)
C4_PoolBound ==
    /\ Cardinality(running) <= MaxWorkers
    /\ running = {i \in Entries : task[i] = "running"}
    /\ \A i \in running : invoked[i] = 1

\* every worker is busy and a call is waiting in the queue
C4_Witness ==
    /\ Cardinality(running) = MaxWorkers
    /\ \E i \in Entries : task[i] = "queued"

(***************************************************************************)
(* C5.  No exception leaves check_file or run_norminette: every future     *)
(* holds an outcome tuple, never an exception, and the run is never ended  *)
(* by one.  Whichever files time out or crash, every entry's outcome is    *)
(* the one it has checked alone, and when the pool is shut down the        *)
(* outcome of every entry has been collected.                              *)
(***************************************************************************)
C5_FailuresIsolated ==
    /\ pc # "uncaught"
    /\ \A i \in Entries :
          /\ ~result[i].raised
          /\ task[i] \in {"done", "collected"} =>
                /\ result[i] = AloneOutcome(i)
                /\ result[i].status \in
                      {"ok", "warning", "error", "fail", "timeout", "crash"}
    /\ PoolShutDown => \A i \in Entries : collected[i] = 1

\* a run in which the file collected first timed out or crashed, and another
\* file was collected after it with the ok or error outcome it has alone
C5_Witness ==
    /\ PoolShutDown
    /\ \E i, j \in Entries :
          /\ result[i].status \in {"timeout", "crash"}
          /\ yielded[1] = files[i]
          /\ files[j] # files[i]
          /\ result[j].status \in {"ok", "error"}
          /\ collected[j] = 1

(***************************************************************************)
(* C6.  With print_output false run_norminette prints nothing and returns  *)
(* a map whose keys are exactly the directories of the entries with        *)
(* outcome error, timeout, crash or fail, each with the number of such     *)
(* entries in it: no key for a directory of ok and warning files only, no  *)
(* value 0, and the values add up to the number of those entries.          *)
(***************************************************************************)
FailingEntries ==
    {i \in Entries : AloneOutcome(i).status \in {"error", "timeout", "crash", "fail"}}

C6_DirectorySummary ==
    /\ pc = "lint" => printed = <<>>
    /\ retval.kind = "stats" =>
          /\ DOMAIN retval.stats = {DirName(files[i]) : i \in FailingEntries}
          /\ \A d \in DOMAIN retval.stats :
                /\ retval.stats[d] > 0
                /\ retval.stats[d]
                      = Cardinality({i \in FailingEntries : DirName(files[i]) = d})
          /\ SumValues(retval.stats) = Cardinality(FailingEntries)

(***************************************************************************)
(* C7.  git_commit_push is reached only after both gates, in their order:  *)
(* the lint summary is empty or the last answer to the lint prompt is 'y', *)
(* and then no unwanted file was found or the last answer to the           *)
(* unwanted-files prompt is 'y'.  The unwanted-files gate is entered only  *)
(* past the lint gate.  After an answer that is neither 'y' nor 'n' the    *)
(* workflow is still at the prompt, and after 'n' the process has exited   *)
(* without a git command.  Answers are compared as the code compares them, *)
(* stripped and in lower case.                                             *)
(***************************************************************************)
InGitCommitPush ==
    pc \in {"git_status", "git_add", "git_commit", "git_branch", "git_push"}
        \/ gitlog # <<>>

LintGatePassed ==
    /\ retval.kind = "stats"
    /\ DOMAIN retval.stats = {} \/ lint_input = <<"y">>

UnwantedGatePassed == unwanted_files = <<>> \/ unwanted_input = <<"y">>

C7_PushGated ==
    /\ InGitCommitPush => LintGatePassed /\ UnwantedGatePassed
    /\ (pc \in {"unwanted", "unwanted_prompt"} \/ unwanted_input # <<"none">>)
          => LintGatePassed
    /\ lint_input \notin {<<"none">>, <<"y">>, <<"n">>} => pc = "lint_prompt"
    /\ unwanted_input \notin {<<"none">>, <<"y">>, <<"n">>} => pc = "unwanted_prompt"
    /\ (lint_input = <<"n">> \/ unwanted_input = <<"n">>)
          => pc = "exit" /\ exit_code = "1" /\ gitlog = <<>>

\* a push that went through: lint errors were found and the operator said yes,
\* unwanted files were found and the operator said yes, and git pushed
C7_Witness ==
    /\ pc = "done"
    /\ DOMAIN retval.stats # {}
    /\ lint_input = <<"y">>
    /\ unwanted_files # <<>>
    /\ unwanted_input = <<"y">>
    /\ gitlog = <<"status", "add", "commit", "rev-parse", "push">>

(***************************************************************************)
(* C8.  When a checker output without the success marker holds a malformed *)
(* "Error:" line (no parenthesised segment, or one that does not split     *)
(* into exactly two values), parse_output_line yields nothing for that     *)
(* line and raises nothing, and check_file returns status error with the   *)
(* diagnostics of the other lines.                                         *)
(***************************************************************************)
\* a "(" ... ")" segment with exactly one comma and no parenthesis inside
HasLineCol(line) ==
    \E a, b \in 1..Len(line) :
        /\ a < b
        /\ line[a] = "("
        /\ line[b] = ")"
        /\ \A k \in (a + 1)..(b - 1) : line[k] \notin {"(", ")"}
        /\ Cardinality({k \in (a + 1)..(b - 1) : line[k] = ","}) = 1

MalformedErrorLine(line) ==
    /\ Contains(line, MarkErrorColon)
    /\ ~Contains(line, MarkEOF)
    /\ ~HasLineCol(line)

\* the diagnostics of the lines that are not malformed "Error:" lines
WellFormedDiagnostics(stdout, d) ==
    LET rest == SelectSeq(stdout, LAMBDA l : ~MalformedErrorLine(l))
    IN  SelectSeq([k \in 1..Len(rest) |-> parse_output_line(rest[k], d)], Truthy)

Checked(i) == task[i] \in {"done", "collected"} /\ procOf[files[i]].kind = "exit"

C8_ParserFailsClosed ==
    \A i \in Entries :
        LET stdout == ProcOfEntry(i).stdout IN
        (/\ Checked(i)
         /\ ~InStdout(stdout, MarkOk)
         /\ \E k \in 1..Len(stdout) : MalformedErrorLine(stdout[k]))
        => /\ \A k \in 1..Len(stdout) :
                 MalformedErrorLine(stdout[k])
                     => parse_output_line(stdout[k], detailed).kind = "none"
           /\ result[i].status = "error"
           /\ result[i].errors = WellFormedDiagnostics(stdout, detailed)

(***************************************************************************)
(* C9.  A line with ": Error!" and neither "Error:" nor "Unexpected EOF"   *)
(* gives a diagnostic that carries the file path, so a file whose checker  *)
(* output is only such a line has status error with a non-empty            *)
(* diagnostics list, is listed in the FAIL section when sections are       *)
(* printed, and is counted as a file with errors.                          *)
(***************************************************************************)
BareErrorLine(line) ==
    /\ Contains(line, MarkErrorBang)
    /\ ~Contains(line, MarkErrorColon)
    /\ ~Contains(line, MarkEOF)

C9_BareErrorReported ==
    \A i \in Entries :
        LET stdout == ProcOfEntry(i).stdout IN
        (Checked(i) /\ Len(stdout) = 1 /\ BareErrorLine(stdout[1]))
        => /\ Truthy(parse_output_line(stdout[1], detailed))
           /\ Contains(parse_output_line(stdout[1], detailed).text, files[i])
           /\ result[i].status = "error"
           /\ result[i].errors # <<>>
           /\ Reported =>
                 /\ retval.errors = 1
                 /\ ~summary_only => HasSection("FAIL")

(***************************************************************************)
(* C10.  For a checker output produced within the timeout the status is    *)
(* warning exactly when the output holds both "Notice:" and ": OK!", ok    *)
(* exactly when it holds ": OK!" and not "Notice:", and error otherwise;   *)
(* ok and warning outcomes carry no diagnostics.                           *)
(***************************************************************************)
C10_Classification ==
    \A i \in Entries :
        LET stdout == ProcOfEntry(i).stdout
            notice == InStdout(stdout, MarkNotice)
            okmark == InStdout(stdout, MarkOk)
        IN
        Checked(i)
        => /\ result[i].status = "warning" <=> (notice /\ okmark)
           /\ result[i].status = "ok" <=> (okmark /\ ~notice)
           /\ ~okmark => result[i].status = "error"
           /\ result[i].status \in {"ok", "warning"}
                 => result[i].errors = <<>> /\ result[i].third = "None"

(***************************************************************************)
(* C11.  A file whose checker process exceeds the timeout gets an outcome  *)
(* with status timeout and a message naming the file.  Once its outcome is *)
(* taken the file is in files_failed, and never in files_ok, warning_files *)
(* or errors_by_file; it is counted in the failed count the report run     *)
(* returns and under its directory in the directory summary.               *)
(***************************************************************************)
TimedOut(i) == procOf[files[i]].kind = "timeout"

C11_TimeoutFailed ==
    \A i \in Entries :
        TimedOut(i) =>
            /\ task[i] \in {"done", "collected"} =>
                  /\ result[i].status = "timeout"
                  /\ result[i].third = "str"
                  /\ Contains(result[i].msg, files[i])
            /\ CountFile(files_failed, files[i])
                  = Cardinality({j \in Entries :
                                    files[j] = files[i] /\ task[j] = "collected"})
            /\ Count(files_ok, files[i]) = 0
            /\ CountFile(warning_files, files[i]) = 0
            /\ CountFile(errors_by_file, files[i]) = 0
            /\ retval.kind = "counts" =>
                  retval.failed >= Cardinality({j \in Entries : TimedOut(j)})
            /\ retval.kind = "stats" =>
                  /\ DirName(files[i]) \in DOMAIN retval.stats
                  /\ retval.stats[DirName(files[i])]
                        >= Cardinality({j \in Entries :
                               TimedOut(j) /\ DirName(files[j]) = DirName(files[i])})

\* a push run returned its summary for a list with a timed-out file next to a
\* file that passed
C11_Witness ==
    /\ retval.kind = "stats"
    /\ \E i, j \in Entries :
          /\ TimedOut(i)
          /\ result[j].status = "ok"
          /\ retval.stats[DirName(files[i])] = 1

(***************************************************************************)
(* C12.  find_c_and_h_files returns no path that is an exclusion or lies   *)
(* under an excluded directory, whether it is reached by walking a root or *)
(* is given as a root (a root file in an excluded directory, an excluded   *)
(* root directory, a root directory inside an excluded one), and it        *)
(* returns every existing .c/.h file under a root that is not excluded.    *)
(***************************************************************************)
\* p lies under the directory d
Under(p, d) == Len(p) > Len(d) + 1 /\ SubSeq(p, 1, Len(d) + 1) = d \o <<"/">>

IsExcluded(p) == p \in exclude_set \/ \E d \in exclude_set : IsDir(d) /\ Under(p, d)

\* the files a root stands for
UnderRoot(f, root) == f = AbsPath(root) \/ (IsDir(AbsPath(root)) /\ Under(f, AbsPath(root)))

ExpectedFiles ==
    {f \in FsFiles :
        /\ EndsWithCH(f)
        /\ \E k \in 1..Len(paths) : UnderRoot(f, paths[k])
        /\ ~IsExcluded(f)}

Found == pc = "done" /\ entry = "list"

C12_ExclusionsHonoured == Found => Range(included_files) = ExpectedFiles

(***************************************************************************)
(* C13.  For every list of roots, the same root twice and overlapping      *)
(* roots included, find_c_and_h_files returns each file path at most once. *)
(***************************************************************************)
C13_NoDuplicates ==
    Found =>
        \A j, k \in 1..Len(included_files) :
            j # k => included_files[j] # included_files[k]

(***************************************************************************)
(* C14.  An operator interrupt during a checking run, whichever way the    *)
(* program was started, is caught at the top level: the cancellation       *)
(* notice is printed, no child process is running once the parent has      *)
(* exited, and the parent's exit status is not 0.                          *)
(***************************************************************************)
C14_InterruptHandled ==
    pc = "interrupted" =>
        /\ HasSection("CANCELLED")
        /\ running = {}
        /\ exit_code \notin {"none", "0"}

(***************************************************************************)
(* C15.  Every outcome check_file returns has a non-empty diagnostics list *)
(* only with status error, and a failure string as third field exactly     *)
(* with status timeout, crash or fail: for ok and warning the third field  *)
(* is None and for error it is a list.                                     *)
(***************************************************************************)
C15_OutcomeShape ==
    \A i \in Entries :
        task[i] \in {"done", "collected"} =>
            LET o == result[i] IN
            /\ o.status \in {"ok", "warning", "error", "timeout", "crash", "fail"}
            /\ o.errors # <<>> => o.status = "error"
            /\ o.third = "str" <=> o.status \in {"timeout", "crash", "fail"}
            /\ o.third = "str" => o.msg # <<>> /\ o.errors = <<>>
            /\ o.status \in {"ok", "warning"} => o.third = "None" /\ o.msg = <<>>
            /\ o.status = "error" => o.third = "list" /\ o.msg = <<>>

\* an ok outcome for an output that holds a line the parser accepts
C15_Witness ==
    \E i \in Entries :
        /\ task[i] = "done"
        /\ result[i].status = "ok"
        /\ ParsedLines(ProcOfEntry(i).stdout, detailed) # <<>>

(***************************************************************************)
(* C16.  The WARN section lists the warning files sorted by path and the   *)
(* FAILED section the failed files sorted by path, as PASS and FAIL do, so *)
(* that the report does not depend on the order of completion.             *)
(***************************************************************************)
C16_AllSectionsSorted ==
    Reported =>
        /\ HasSection("WARN") =>
              SectionItems("WARN")
                  = [k \in 1..Len(warning_files) |->
                        [file |-> RelPath(SortByFile(warning_files)[k].file),
                         warnings |-> SortByFile(warning_files)[k].warnings]]
        /\ HasSection("FAILED") => SortedByFile(SectionItems("FAILED"))

(***************************************************************************)
(* C17.  A push that meets a blocking condition ends with exit code 1 and  *)
(* runs no git command afterwards: no repository, no git root, 'n' at the  *)
(* lint prompt or at the unwanted-files prompt, or a failing git status,   *)
(* add, commit, branch lookup or push.  The process that exited takes no   *)
(* further step, and a git command that failed is the last one run.        *)
(***************************************************************************)
Blocked ==
    \/ HasSection("NOT_A_REPO")
    \/ HasSection("NO_GIT_ROOT")
    \/ lint_input = <<"n">>
    \/ unwanted_input = <<"n">>

C17_BlockedPushExitsOne ==
    /\ Blocked => pc = "exit" /\ exit_code = "1" /\ gitlog = <<>>
    /\ pc = "exit" => exit_code = "1" /\ ~ENABLED Next
    /\ exit_code = "1" => pc = "exit"
    /\ (entry = "push" /\ exit_code = "0") =>
          /\ pc = "done"
          /\ ~Blocked
          /\ gitlog \in {<<"status">>,
                         <<"status", "add", "commit", "rev-parse", "push">>}

\* the push itself failed, after every gate was passed
C17_Witness ==
    /\ pc = "exit"
    /\ exit_code = "1"
    /\ gitlog = <<"status", "add", "commit", "rev-parse", "push">>

(***************************************************************************)
(* C18.  In the report, with summary_only no PASS, WARN, FAIL or FAILED    *)
(* section is printed and the counts are; with error_only alone PASS is    *)
(* not printed and WARN, FAIL and FAILED are printed exactly when their    *)
(* bucket is not empty; with neither flag PASS is printed whenever a file  *)
(* is ok.                                                                  *)
(***************************************************************************)
C18_SectionFlags ==
    Reported =>
        /\ summary_only =>
              /\ ~HasSection("PASS") /\ ~HasSection("WARN")
              /\ ~HasSection("FAIL") /\ ~HasSection("FAILED")
              /\ HasSection("SUMMARY")
        /\ (error_only /\ ~summary_only) => ~HasSection("PASS")
        /\ ~summary_only =>
              /\ HasSection("WARN") <=> warning_files # <<>>
              /\ HasSection("FAIL") <=> errors_by_file # <<>>
              /\ HasSection("FAILED") <=> files_failed # <<>>
        /\ (~error_only /\ ~summary_only) =>
              (HasSection("PASS") <=> files_ok # <<>>)

\* error_only alone, with a file that passed and a file with a warning
C18_Witness ==
    /\ Reported
    /\ error_only /\ ~summary_only
    /\ files_ok # <<>>
    /\ HasSection("WARN")
    /\ ~HasSection("PASS")

(***************************************************************************)
(* C19.  For a line 'Error: RULENAME(line: N, col: M) DETAIL' the parser   *)
(* gives a diagnostic with line exactly N, column exactly M, rule name     *)
(* RULENAME, and DETAIL in full when detailed is set and not at all when   *)
(* it is not.                                                              *)
(***************************************************************************)
\* what the claim expects for the line "Error: RULE2(line: 2, col: 1) more text"
ExpectedErr2(d) ==
    ParseResult("diag", <<"2">>, <<"1">>, <<"RULE2">>,
                IF d THEN <<"more", " ", "text">> ELSE <<>>, <<>>)

C19_DiagnosticFields ==
    \A i \in Entries :
        Checked(i) =>
            \A k \in 1..Len(procOf[files[i]].lines) :
                procOf[files[i]].lines[k] = "err2" =>
                    parse_output_line(ProcOfEntry(i).stdout[k], detailed)
                        = ExpectedErr2(detailed)

(***************************************************************************)
(* C20.  No PASS, WARN, FAIL or FAILED section and no count is printed,    *)
(* and no directory summary is returned, before every submitted file's     *)
(* outcome has been taken and the pool has shut down.                      *)
(***************************************************************************)
Rendering ==
    \/ \E k \in 1..Len(printed) :
          printed[k].section \in {"PASS", "WARN", "FAIL", "FAILED", "SUMMARY"}
    \/ pc \in {"render", "stats"}
    \/ RunReturned

C20_RenderAfterAll ==
    Rendering =>
        /\ submitted = N
        /\ running = {}
        /\ \A i \in Entries : task[i] = "collected" /\ collected[i] = 1
        /\ Len(files_ok) + Len(warning_files) + Len(errors_by_file) + Len(files_failed)
              = Cardinality({i \in Entries : BucketOf(result[i]) # "none"})

\* a report with a section and the counts, for more files than the pool has
\* workers, all of them timed out
C20_Witness ==
    /\ Reported
    /\ N > MaxWorkers
    /\ HasSection("FAILED")
    /\ HasSection("SUMMARY")
    /\ retval.failed = N

(***************************************************************************)
(* C21.  When the checker process ends within the timeout, the status is   *)
(* decided by its standard output alone, whatever its exit code and        *)
(* standard error: a checker that exits non-zero is classified warning, ok *)
(* or error by the markers of its output, and status fail is returned for  *)
(* no input.                                                               *)
(***************************************************************************)
\* the classification by the markers of the output
MarkerStatus(stdout) ==
    IF InStdout(stdout, MarkNotice) /\ InStdout(stdout, MarkOk) THEN "warning"
    ELSE IF InStdout(stdout, MarkOk) THEN "ok"
    ELSE "error"

C21_StdoutDecides ==
    \A i \in Entries :
        task[i] \in {"done", "collected"} =>
            /\ result[i].status # "fail"
            /\ (Checked(i) /\ ProcOfEntry(i).returncode # 0) =>
                  result[i].status = MarkerStatus(ProcOfEntry(i).stdout)

(***************************************************************************)
(* C22.  With every checker process ending by itself or at its deadline    *)
(* and the workers scheduled fairly, a run that has started eventually     *)
(* reaches the state where run_norminette has returned, every submitted    *)
(* task was run once and the loop has taken every outcome; no call is ever *)
(* started a second time, and while the hanging file holds its worker the  *)
(* other workers are not all busy with it: it keeps one worker only.       *)
(***************************************************************************)
LiveEntries == 1..(MaxWorkers + ExtraFiles)

C22_RunTerminates ==
    /\ (pc = "run")
          ~> (/\ RunReturned
              /\ \A i \in LiveEntries :
                    i <= N => task[i] = "collected" /\ invoked[i] = 1)
    /\ [](\A i \in Entries : invoked[i] <= 1)
    /\ []((TimedOut(1) /\ 1 \in running) => Cardinality(running \ {1}) < MaxWorkers)

\* the run returned for a list whose first file hung until its deadline while
\* the others passed with a notice
C22_Witness ==
    /\ RunReturned
    /\ N > MaxWorkers
    /\ result[1].status = "timeout"
    /\ \A i \in 2..N : result[i].status = "warning"

====
